---- MODULE Spec2Model ----
(***************************************************************************)
(* Model of the IEEE document generator (backend/services/docx_generator.py)*)
(* and of the export route that drives it (backend/routes/paper.py).       *)
(*                                                                         *)
(* A text is a sequence of one-character strings, so that lower(),         *)
(* upper(), strip(), split() and str() are computed character by           *)
(* character.  The document (self.doc) is the sequence of blocks that      *)
(* python-docx appends to the body, in document order.                     *)
(***************************************************************************)
EXTENDS Integers, Sequences, FiniteSets, TLC

(***************************************************************************)
(* Bounds of the model.                                                    *)
(***************************************************************************)
\* longest section list (more than the ten Roman numerals)
MaxSections == 11
\* longest figure list
MaxFigures == 2
\* longest image list
MaxImages == 2
\* longest reference list
MaxRefs == 2
\* most switches between overlapping requests
MaxSwitches == 2
\* longest upload list within the limit on images
MaxUploads == 2

(***************************************************************************)
(* Settings (config.py).                                                   *)
(***************************************************************************)
MAX_CONTENT_LENGTH == 100000

MAX_IMAGES == 10

MAX_IMAGE_SIZE_MB == 5

(***************************************************************************)
(* Text helpers: Python's str methods on character sequences.              *)
(***************************************************************************)
UpperCase == <<"A", "B", "C", "D", "E", "F", "G", "H", "I", "J", "K", "L", "M",
               "N", "O", "P", "Q", "R", "S", "T", "U", "V", "W", "X", "Y", "Z">>

LowerCase == <<"a", "b", "c", "d", "e", "f", "g", "h", "i", "j", "k", "l", "m",
               "n", "o", "p", "q", "r", "s", "t", "u", "v", "w", "x", "y", "z">>

\* position of ch in the alphabet abc, 0 when it is not in it
PosIn(ch, abc) ==
    IF \E k \in 1..Len(abc) : abc[k] = ch
    THEN CHOOSE k \in 1..Len(abc) : abc[k] = ch
    ELSE 0

\* str.lower(), one character
LowerChar(ch) ==
    IF PosIn(ch, UpperCase) > 0 THEN LowerCase[PosIn(ch, UpperCase)] ELSE ch

\* str.upper(), one character
UpperChar(ch) ==
    IF PosIn(ch, LowerCase) > 0 THEN UpperCase[PosIn(ch, LowerCase)] ELSE ch

\* str.lower()
Lower(s) == [k \in 1..Len(s) |-> LowerChar(s[k])]

\* str.upper()
Upper(s) == [k \in 1..Len(s) |-> UpperChar(s[k])]

\* whitespace as str.strip() and str.split() see it
IsSpace(ch) == ch \in {" ", "\n", "\t"}

RECURSIVE LStrip(_)
LStrip(s) ==
    IF s # <<>> /\ IsSpace(Head(s)) THEN LStrip(Tail(s)) ELSE s

RECURSIVE RStrip(_)
RStrip(s) ==
    IF s # <<>> /\ IsSpace(s[Len(s)]) THEN RStrip(SubSeq(s, 1, Len(s) - 1)) ELSE s

\* str.strip()
Strip(s) == LStrip(RStrip(s))

\* str.split('\n\n'): the pieces between non-overlapping separators, left to
\* right, empty pieces kept
RECURSIVE SplitBlank(_, _)
SplitBlank(s, cur) ==
    IF s = <<>> THEN <<cur>>
    ELSE IF Len(s) >= 2 /\ s[1] = "\n" /\ s[2] = "\n"
         THEN <<cur>> \o SplitBlank(SubSeq(s, 3, Len(s)), <<>>)
         ELSE SplitBlank(Tail(s), Append(cur, Head(s)))

\* str.split(): the maximal runs of non-whitespace characters
RECURSIVE SplitWords(_, _)
SplitWords(s, cur) ==
    IF s = <<>> THEN (IF cur = <<>> THEN <<>> ELSE <<cur>>)
    ELSE IF IsSpace(Head(s))
         THEN (IF cur = <<>> THEN <<>> ELSE <<cur>>) \o SplitWords(Tail(s), <<>>)
         ELSE SplitWords(Tail(s), Append(cur, Head(s)))

\* sep.join(parts)
RECURSIVE Join(_, _)
Join(sep, parts) ==
    IF parts = <<>> THEN <<>>
    ELSE IF Len(parts) = 1 THEN parts[1]
         ELSE parts[1] \o sep \o Join(sep, Tail(parts))

Digits == <<"0", "1", "2", "3", "4", "5", "6", "7", "8", "9">>

\* str(n) of a non-negative integer
RECURSIVE Str(_)
Str(n) ==
    IF n < 10 THEN <<Digits[n + 1]>>
    ELSE Str(n \div 10) \o <<Digits[(n % 10) + 1]>>

(***************************************************************************)
(* The inputs of generate(): a StructuredPaper and the image list.         *)
(***************************************************************************)
\* Section records (models/schemas.py); the second content holds blank-line
\* separated paragraphs with stray whitespace, the third is empty
SectionPool ==
    << [heading |-> <<"A", "b">>, content |-> <<"A", ".">>],
       [heading |-> <<"C">>,
        content |-> <<" ", "B", ".", "\n", "\n", "\n", "\n", "c", " ", " ", "d", " ", "\n">>],
       [heading |-> <<"a", "B">>, content |-> <<>>] >>

\* the section list of n sections that starts at pool position r + 1 and
\* walks the pool round and round
SectionList(n, r) == [k \in 1..n |-> SectionPool[((k - 1 + r) % Len(SectionPool)) + 1]]

\* Figure.placement values: two that match a heading ignoring case, one that
\* matches none
Placements == {<<"A", "B">>, <<"c">>, <<"z">>}

\* Figure.index values: the schema accepts any int; a negative one, the first
\* and the last position of the longest image list, and one beyond it
Indices == {-1, 0, MaxImages - 1, MaxImages}

\* the caption of the k-th figure record names the record
CaptionOf(k) == <<"c", "a", "p", Digits[k + 1]>>

\* Figure records (models/schemas.py)
FigureLists ==
    UNION { { [k \in 1..n |-> [index |-> f[k][1], caption |-> CaptionOf(k),
                               placement |-> f[k][2]]] :
              f \in [1..n -> Indices \X Placements] } : n \in 0..MaxFigures }

\* image bytes: a decodable image starts with the PNG signature, any other
\* payload does not; the last character is the 0-based position in the list
ImageBytes(k, ok) ==
    (IF ok THEN <<"P", "N", "G">> ELSE <<"j", "u", "n", "k">>) \o <<Digits[k]>>

ImageLists ==
    UNION { { [k \in 1..n |-> ImageBytes(k, k \notin bad)] : bad \in SUBSET (1..n) } :
            n \in 0..MaxImages }

RefLists == { [k \in 1..n |-> <<"[", "r", "e", "f", "]">>] : n \in 0..MaxRefs }

\* StructuredPaper (models/schemas.py)
StructuredPaper(sections, figures, references) ==
    [ title |-> <<"T", "i", "t", "l", "e">>,
      authors |-> <<"[", "A", "u", "t", "h", "o", "r", " ", "N", "a", "m", "e", "]">>,
      abstract |-> <<"S", "u", "m", ".">>,
      keywords |-> << <<"k", "1">>, <<"k", "2">> >>,
      sections |-> sections,
      figures |-> figures,
      references |-> references ]

\* image lists without an undecodable image, and the longest one with only
\* the first image undecodable
MostlyGoodImageLists ==
    {im \in ImageLists : /\ \A k \in 2..Len(im) : im[k] = ImageBytes(k, TRUE)
                         /\ Len(im) = MaxImages \/ im = <<>> \/ im[1] = ImageBytes(1, TRUE)}

\* figure lists of at most n figures
FigureListsUpTo(n) == {f \in FigureLists : Len(f) <= n}

\* the arguments of export requests that vary the figure list: two sections
\* with different headings, or with headings equal ignoring case
FigureInputs ==
    { [paper |-> StructuredPaper(SectionList(2, r), f, <<>>), images |-> im] :
      r \in {0, 2}, f \in FigureLists, im \in MostlyGoodImageLists }

\* the arguments that vary the image list
ImageInputs ==
    { [paper |-> StructuredPaper(SectionList(2, 0), f, r), images |-> im] :
      f \in FigureListsUpTo(1), r \in RefLists, im \in ImageLists }

\* the arguments that vary the section list, up to more sections than there
\* are Roman numerals in the table
SectionInputs ==
    { [paper |-> StructuredPaper(SectionList(n, r), f, q), images |-> im] :
      n \in 0..MaxSections, r \in 0..(Len(SectionPool) - 1),
      f \in {g \in FigureListsUpTo(1) : \A k \in 1..Len(g) : g[k].index = 0},
      q \in RefLists,
      im \in {<<>>, <<ImageBytes(1, TRUE)>>} }

Inputs == FigureInputs \cup ImageInputs \cup SectionInputs

(***************************************************************************)
(* Document blocks.  python-docx appends paragraphs, pictures and section  *)
(* breaks to the body in call order.                                       *)
(***************************************************************************)
Paragraph(style, runs) ==
    [kind |-> "paragraph", style |-> style, align |-> "style", runs |-> runs]

Centered(block) == [block EXCEPT !.align = "center"]

Picture(image_data) ==
    [kind |-> "picture", style |-> "Normal", align |-> "style", runs |-> <<image_data>>]

\* the section break carrying <w:cols w:num="2" w:space=...>
TwoColumnBreak ==
    [kind |-> "section_break", style |-> "cols=2", align |-> "style", runs |-> <<>>]

EmDash == "--"

\* Python's list indexing images[index]: negative indices count from the end
PyInRange(seq, index) == -Len(seq) <= index /\ index < Len(seq)

PyIndex(seq, index) == IF index >= 0 THEN seq[index + 1] ELSE seq[Len(seq) + index + 1]

\* the test of line 295 as a figure index off by one would make it
IndexBelowLenInclusive(index, images) == index <= Len(images)

\* the test of line 295: fig.index < len(images)
IndexBelowLen(index, images) == index < Len(images)

\* whether python-docx can decode the payload (it recognises the signature)
Decodable(image_data) == SubSeq(image_data, 1, 3) = <<"P", "N", "G">>

(***************************************************************************)
(* IEEEDocxGenerator: each method as a function of the document (and the   *)
(* figure counter) it is called on.                                        *)
(***************************************************************************)
_add_title(d, title) == Append(d, Paragraph("IEEE Title", <<title>>))

_add_authors(d, authors) == Append(d, Paragraph("IEEE Author", <<authors>>))

\* one run: "Abstract" and the dash, then add_text(abstract) on the same run
_add_abstract(d, abstract) ==
    Append(d, Paragraph("IEEE Abstract",
                        << <<"A", "b", "s", "t", "r", "a", "c", "t", EmDash>> \o abstract >>))

_add_keywords(d, keywords) ==
    Append(d, Paragraph("IEEE Keywords",
                        << <<"K", "e", "y", "w", "o", "r", "d", "s", EmDash>>,
                           Join(<<";", " ">>, keywords) >>))

\* _set_two_column as it would be were the column switch left out
_set_two_column_missing(d) == d

_set_two_column(d) == Append(d, TwoColumnBreak)

roman_numerals ==
    << <<"I">>, <<"I", "I">>, <<"I", "I", "I">>, <<"I", "V">>, <<"V">>, <<"V", "I">>,
       <<"V", "I", "I">>, <<"V", "I", "I", "I">>, <<"I", "X">>, <<"X">> >>

\* _add_section_heading with the table bound off by one: the tenth heading
\* falls through to str(number)
_add_section_heading_short_table(d, heading, number) ==
    LET numeral == IF number < Len(roman_numerals)
                   THEN roman_numerals[number]
                   ELSE Str(number)
    IN  Append(d, Paragraph("IEEE Heading", <<numeral \o <<".", " ">> \o Upper(heading)>>))

_add_section_heading(d, heading, number) ==
    LET numeral == IF number <= Len(roman_numerals)
                   THEN roman_numerals[number]
                   ELSE Str(number)
    IN  Append(d, Paragraph("IEEE Heading", <<numeral \o <<".", " ">> \o Upper(heading)>>))

\* the paragraphs of content: split on blank lines, stripped, empty ones
\* dropped, inner whitespace collapsed
RECURSIVE BodyParagraphs(_)
BodyParagraphs(pieces) ==
    IF pieces = <<>> THEN <<>>
    ELSE LET para_text == Strip(Head(pieces))
         IN  (IF para_text # <<>>
              THEN <<Paragraph("IEEE Body", <<Join(<<" ">>, SplitWords(para_text, <<>>))>>)>>
              ELSE <<>>)
             \o BodyParagraphs(Tail(pieces))

_add_body_text(d, content) == d \o BodyParagraphs(SplitBlank(Strip(content), <<>>))

\* the picture, or the placeholder when add_picture raises
FigureImageBlock(image_data) ==
    IF Decodable(image_data)
    THEN Centered(Picture(image_data))
    ELSE Centered(Paragraph("Normal",
             << <<"[", "I", "m", "a", "g", "e", " ", "c", "o", "u", "l", "d", " ", "n", "o", "t",
                  " ", "b", "e", " ", "p", "r", "o", "c", "e", "s", "s", "e", "d", "]">> >>))

\* the bold run of a caption: f"Fig. {n}. "
FigLabel(n) == <<"F", "i", "g", ".", " ">> \o Str(n) \o <<".", " ">>

\* _add_figure as it would be were the caption skipped with the picture when
\* add_picture raises
_add_figure_caption_in_try(d, counter, image_data, caption) ==
    [ doc |-> d \o <<FigureImageBlock(image_data)>>
                \o (IF Decodable(image_data)
                    THEN <<Paragraph("IEEE Caption", <<FigLabel(counter + 1), caption>>)>>
                    ELSE <<>>),
      figure_counter |-> counter + 1 ]

\* the document and the counter after _add_figure
_add_figure(d, counter, image_data, caption) ==
    [ doc |-> d \o << FigureImageBlock(image_data),
                      Paragraph("IEEE Caption", <<FigLabel(counter + 1), caption>>) >>,
      figure_counter |-> counter + 1 ]

\* the caption generate() gives a swept-in image: f"Figure {n}"
AutoCaption(n) == <<"F", "i", "g", "u", "r", "e", " ">> \o Str(n)

ReferencesHeading ==
    Paragraph("IEEE Heading", << <<"R", "E", "F", "E", "R", "E", "N", "C", "E", "S">> >>)

\* _add_references as it would be without the rewrite of the heading
_add_references_numbered(d, references) ==
    _add_section_heading(d, <<"R", "e", "f", "e", "r", "e", "n", "c", "e", "s">>, 99)
    \o [k \in 1..Len(references) |->
           Paragraph("IEEE Body", <<(<<"[">> \o Str(k) \o <<"]", " ">>) \o references[k]>>)]

\* the heading is added as number 99, then cleared and rewritten without a
\* numeral; then one paragraph per reference
_add_references(d, references) ==
    LET headed == _add_section_heading(d, <<"R", "e", "f", "e", "r", "e", "n", "c", "e", "s">>, 99)
    IN  SubSeq(headed, 1, Len(headed) - 1) \o <<ReferencesHeading>>
        \o [k \in 1..Len(references) |->
               Paragraph("IEEE Body", <<(<<"[">> \o Str(k) \o <<"]", " ">>) \o references[k]>>)]

\* figures_by_section as it would be keyed by the placement as written
FiguresBySectionCaseSensitive(figures) ==
    [ key \in {figures[k].placement : k \in 1..Len(figures)} |->
        SelectSeq(figures, LAMBDA fig : fig.placement = key) ]

\* figures_by_section: lower-cased placement -> the figures naming it, in
\* figure-list order
FiguresBySection(figures) ==
    [ key \in {Lower(figures[k].placement) : k \in 1..Len(figures)} |->
        SelectSeq(figures, LAMBDA fig : Lower(fig.placement) = key) ]

\* placed_indices as it would be were no index counted as referenced
PlacedIndicesOfNone(figures) == {}

\* placed_indices
PlacedIndices(figures) == {figures[k].index : k \in 1..Len(figures)}

(***************************************************************************)
(* generate() on a new instance, as a function of its two arguments: the   *)
(* document it returns, or that it raises.  The state r of a call is the   *)
(* document, the figure counter and whether images[fig.index] has raised.  *)
(***************************************************************************)
\* lines 293-296: the figures of one section, in bucket order
RECURSIVE RenderFigures(_, _, _)
RenderFigures(r, figs, images) ==
    IF figs = <<>> \/ r.raised THEN r
    ELSE LET fig == Head(figs)
         IN  IF ~IndexBelowLen(fig.index, images)
             THEN RenderFigures(r, Tail(figs), images)
             ELSE IF ~PyInRange(images, fig.index)
             THEN [r EXCEPT !.raised = TRUE]
             ELSE LET a == _add_figure(r.doc, r.figure_counter,
                                       PyIndex(images, fig.index), fig.caption)
                  IN  RenderFigures([r EXCEPT !.doc = a.doc,
                                              !.figure_counter = a.figure_counter],
                                    Tail(figs), images)

\* lines 287-296: the sections from the i-th on
RECURSIVE RenderSections(_, _, _, _)
RenderSections(r, paper, images, i) ==
    IF i > Len(paper.sections) \/ r.raised THEN r
    ELSE LET section == paper.sections[i]
             by_section == FiguresBySection(paper.figures)
             section_key == Lower(section.heading)
             headed == _add_body_text(_add_section_heading(r.doc, section.heading, i),
                                      section.content)
             figs == IF section_key \in DOMAIN by_section
                     THEN by_section[section_key] ELSE <<>>
         IN  RenderSections(RenderFigures([r EXCEPT !.doc = headed], figs, images),
                            paper, images, i + 1)

\* lines 300-303: the images from the k-th (1-based) on that no figure names
RECURSIVE SweepImages(_, _, _, _)
SweepImages(r, placed, images, k) ==
    IF k > Len(images) THEN r
    ELSE IF (k - 1) \in placed THEN SweepImages(r, placed, images, k + 1)
    ELSE LET counted == r.figure_counter + 1
             a == _add_figure(r.doc, counted, images[k], AutoCaption(counted))
         IN  SweepImages([r EXCEPT !.doc = a.doc, !.figure_counter = a.figure_counter],
                         placed, images, k + 1)

generate(paper, images) ==
    LET front == _set_two_column(
                     _add_keywords(
                         _add_abstract(
                             _add_authors(_add_title(<<>>, paper.title), paper.authors),
                             paper.abstract),
                         paper.keywords))
        sections == RenderSections([doc |-> front, figure_counter |-> 0, raised |-> FALSE],
                                   paper, images, 1)
        swept == SweepImages(sections, PlacedIndices(paper.figures), images, 1)
    IN  IF sections.raised
        THEN [raised |-> TRUE, doc |-> <<>>]
        ELSE [raised |-> FALSE,
              doc |-> IF paper.references # <<>>
                      THEN _add_references(swept.doc, paper.references)
                      ELSE swept.doc]

(***************************************************************************)
(* State.  The generator is the module singleton of docx_generator.py; its *)
(* fields doc and figure_counter are shared by every generate() call.  The *)
(* other variables are the locals of each export request, one per caller.  *)
(***************************************************************************)
Callers == {1, 2}

VARIABLES
    generator,           \* _generator: "None" or "IEEEDocxGenerator"
    doc,                 \* self.doc, the blocks appended so far (<<>> for None)
    figure_counter,      \* self.figure_counter
    pc,                  \* where each request stands
    args,                \* the paper and images of each request
    figures_by_section,  \* local of generate()
    sec_i,               \* 1-based position of the section loop
    fig_j,               \* 1-based position in the current section's figures
    placed_indices,      \* local of generate()
    img_i,               \* 1-based position of the sweep over images
    output,              \* the document generate() returned
    running,             \* the request the interpreter is executing
    switches,            \* how often the interpreter has switched requests
    earlier,             \* the arguments of the preceding generate() call, if any
    _session_images,     \* routes/paper.py: the images of the session
    _session_paper,      \* routes/paper.py: the paper of the session, <<>> for None
    task                 \* the generate_paper request of each client

vars == <<generator, doc, figure_counter, pc, args, figures_by_section, sec_i, fig_j,
          placed_indices, img_i, output, running, switches, earlier, _session_images,
          _session_paper, task>>

sched == <<running, switches>>

history == <<earlier>>

session == <<_session_images, _session_paper, task>>

shared == <<generator, doc, figure_counter>>

\* the singleton and what an export request holds
export == <<generator, doc, figure_counter, pc, args, figures_by_section, sec_i, fig_j,
            placed_indices, img_i, output>>

NoArgs == [paper |-> StructuredPaper(<<>>, <<>>, <<>>), images |-> <<>>]

\* the clients that post one request each to /api/generate-paper
Clients == {1, 2}

\* GeneratePaperResponse, with the HTTP status it travels under; paper is
\* <<>> for None; status 0: no response yet
Response(status, success, paper, error) ==
    [status |-> status, success |-> success, paper |-> paper, error |-> error]

\* no generate_paper request of the client is being served
NoTask ==
    [ at |-> "idle", raw_content |-> 0, images |-> <<>>, read |-> 0, image_count |-> 0,
      response |-> Response(0, FALSE, <<>>, "none"), entry |-> <<>> ]

Init ==
    /\ generator = "None"
    /\ doc = <<>>
    /\ figure_counter = 0
    /\ pc = [c \in Callers |-> "idle"]
    /\ args = [c \in Callers |-> NoArgs]
    /\ figures_by_section = [c \in Callers |-> <<>>]
    /\ sec_i = [c \in Callers |-> 0]
    /\ fig_j = [c \in Callers |-> 0]
    /\ placed_indices = [c \in Callers |-> {}]
    /\ img_i = [c \in Callers |-> 0]
    /\ output = [c \in Callers |-> <<>>]
    /\ running = 1
    /\ switches = 0
    /\ earlier = <<>>
    /\ _session_images = <<>>
    /\ _session_paper = <<>>
    /\ task = [c \in Clients |-> NoTask]

Sections(c) == args[c].paper.sections

Images(c) == args[c].images

\* request c is the one executing, and stands at the statement `label`
At(c, label) == running = c /\ pc[c] = label

\* a request is inside generate()
InGenerate(c) == pc[c] \notin {"idle", "done", "raised"}

\* the figures of the section the loop is at
Bucket(c) ==
    LET section_key == Lower(Sections(c)[sec_i[c]].heading)
    IN  IF section_key \in DOMAIN figures_by_section[c]
        THEN figures_by_section[c][section_key]
        ELSE <<>>

\* control after image k (1-based) of the sweep
GotoNextImage(c, k) ==
    IF k < Len(Images(c))
    THEN /\ pc' = [pc EXCEPT ![c] = "sweep"]
         /\ img_i' = [img_i EXCEPT ![c] = k + 1]
    ELSE /\ pc' = [pc EXCEPT ![c] = IF args[c].paper.references # <<>>
                                    THEN "references" ELSE "save"]
         /\ img_i' = img_i

\* control after section i: the next section, or the statement after the loop
GotoNextSection(c, i) ==
    IF i < Len(Sections(c))
    THEN /\ pc' = [pc EXCEPT ![c] = "section"]
         /\ sec_i' = [sec_i EXCEPT ![c] = i + 1]
    ELSE /\ pc' = [pc EXCEPT ![c] = "placed"]
         /\ sec_i' = sec_i

\* control after figure j of the current section
GotoNextFigure(c, j) ==
    IF j < Len(Bucket(c))
    THEN /\ pc' = [pc EXCEPT ![c] = "figures"]
         /\ fig_j' = [fig_j EXCEPT ![c] = j + 1]
         /\ sec_i' = sec_i
    ELSE /\ fig_j' = fig_j
         /\ GotoNextSection(c, sec_i[c])

(***************************************************************************)
(* export_docx and generate(), statement by statement.                     *)
(***************************************************************************)
\* export_docx: get_docx_generator() creates the singleton on first use;
\* generate() binds its arguments (images = images or [])
BeginGenerate(c, requests) ==
    /\ At(c, "idle")
    /\ generator' = "IEEEDocxGenerator"
    /\ \E in \in requests : args' = [args EXCEPT ![c] = in]
    /\ pc' = [pc EXCEPT ![c] = "setup"]
    /\ UNCHANGED <<doc, figure_counter, figures_by_section, sec_i, fig_j, placed_indices,
                   img_i, output, sched, history, session>>

\* _setup_document as it would be were the figure counter not set back
SetupDocumentKeepsCounter(c) ==
    /\ At(c, "setup")
    /\ doc' = <<>>
    /\ pc' = [pc EXCEPT ![c] = "title"]
    /\ UNCHANGED <<generator, figure_counter, args, figures_by_section, sec_i, fig_j,
                   placed_indices, img_i, output, sched, history, session>>

\* _setup_document: a new Document, the counters back to 0
SetupDocument(c) ==
    /\ At(c, "setup")
    /\ doc' = <<>>
    /\ figure_counter' = 0
    /\ pc' = [pc EXCEPT ![c] = "title"]
    /\ UNCHANGED <<generator, args, figures_by_section, sec_i, fig_j, placed_indices,
                   img_i, output, sched, history, session>>

AddTitle(c) ==
    /\ At(c, "title")
    /\ doc' = _add_title(doc, args[c].paper.title)
    /\ pc' = [pc EXCEPT ![c] = "authors"]
    /\ UNCHANGED <<generator, figure_counter, args, figures_by_section, sec_i, fig_j,
                   placed_indices, img_i, output, sched, history, session>>

AddAuthors(c) ==
    /\ At(c, "authors")
    /\ doc' = _add_authors(doc, args[c].paper.authors)
    /\ pc' = [pc EXCEPT ![c] = "abstract"]
    /\ UNCHANGED <<generator, figure_counter, args, figures_by_section, sec_i, fig_j,
                   placed_indices, img_i, output, sched, history, session>>

AddAbstract(c) ==
    /\ At(c, "abstract")
    /\ doc' = _add_abstract(doc, args[c].paper.abstract)
    /\ pc' = [pc EXCEPT ![c] = "keywords"]
    /\ UNCHANGED <<generator, figure_counter, args, figures_by_section, sec_i, fig_j,
                   placed_indices, img_i, output, sched, history, session>>

AddKeywords(c) ==
    /\ At(c, "keywords")
    /\ doc' = _add_keywords(doc, args[c].paper.keywords)
    /\ pc' = [pc EXCEPT ![c] = "two_column"]
    /\ UNCHANGED <<generator, figure_counter, args, figures_by_section, sec_i, fig_j,
                   placed_indices, img_i, output, sched, history, session>>

SetTwoColumn(c) ==
    /\ At(c, "two_column")
    /\ doc' = _set_two_column(doc)
    /\ pc' = [pc EXCEPT ![c] = "fig_map"]
    /\ UNCHANGED <<generator, figure_counter, args, figures_by_section, sec_i, fig_j,
                   placed_indices, img_i, output, sched, history, session>>

\* lines 279-284, then the section loop is entered
BuildFigureMap(c) ==
    /\ At(c, "fig_map")
    /\ figures_by_section' =
           [figures_by_section EXCEPT ![c] = FiguresBySection(args[c].paper.figures)]
    /\ GotoNextSection(c, 0)
    /\ UNCHANGED <<shared, args, fig_j, placed_indices, img_i, output, sched, history, session>>

AddSectionHeading(c) ==
    /\ At(c, "section")
    /\ doc' = _add_section_heading(doc, Sections(c)[sec_i[c]].heading, sec_i[c])
    /\ pc' = [pc EXCEPT ![c] = "body"]
    /\ UNCHANGED <<generator, figure_counter, args, figures_by_section, sec_i, fig_j,
                   placed_indices, img_i, output, sched, history, session>>

\* the body, then the section's figures if it has any
AddBodyText(c) ==
    /\ At(c, "body")
    /\ doc' = _add_body_text(doc, Sections(c)[sec_i[c]].content)
    /\ GotoNextFigure(c, 0)
    /\ UNCHANGED <<generator, figure_counter, args, figures_by_section, placed_indices,
                   img_i, output, sched, history, session>>

\* line 295 true and images[fig.index] exists: the figure is rendered
SectionFigureRender(c) ==
    /\ At(c, "figures")
    /\ LET fig == Bucket(c)[fig_j[c]]
       IN  /\ IndexBelowLen(fig.index, Images(c))
           /\ PyInRange(Images(c), fig.index)
           /\ LET r == _add_figure(doc, figure_counter, PyIndex(Images(c), fig.index),
                                   fig.caption)
              IN  /\ doc' = r.doc
                  /\ figure_counter' = r.figure_counter
    /\ GotoNextFigure(c, fig_j[c])
    /\ UNCHANGED <<generator, args, figures_by_section, placed_indices, img_i, output, sched, history, session>>

\* line 295 false: the figure is skipped
SectionFigureSkip(c) ==
    /\ At(c, "figures")
    /\ ~IndexBelowLen(Bucket(c)[fig_j[c]].index, Images(c))
    /\ GotoNextFigure(c, fig_j[c])
    /\ UNCHANGED <<shared, args, figures_by_section, placed_indices, img_i, output, sched, history, session>>

\* line 295 true and images[fig.index] raises IndexError: generate() raises,
\* export_docx answers HTTP 500
SectionFigureRaise(c) ==
    /\ At(c, "figures")
    /\ LET fig == Bucket(c)[fig_j[c]]
       IN  /\ IndexBelowLen(fig.index, Images(c))
           /\ ~PyInRange(Images(c), fig.index)
    /\ pc' = [pc EXCEPT ![c] = "raised"]
    /\ UNCHANGED <<shared, args, figures_by_section, sec_i, fig_j, placed_indices, img_i,
                   output, sched, history, session>>

\* line 299, then the sweep is entered
ComputePlaced(c) ==
    /\ At(c, "placed")
    /\ placed_indices' = [placed_indices EXCEPT ![c] = PlacedIndices(args[c].paper.figures)]
    /\ GotoNextImage(c, 0)
    /\ UNCHANGED <<shared, args, figures_by_section, sec_i, fig_j, output, sched, history, session>>

\* line 301 false: the image is named by a figure
SweepSkip(c) ==
    /\ At(c, "sweep")
    /\ (img_i[c] - 1) \in placed_indices[c]
    /\ GotoNextImage(c, img_i[c])
    /\ UNCHANGED <<shared, args, figures_by_section, sec_i, fig_j, placed_indices, output, sched, history, session>>

\* line 302: self.figure_counter += 1
SweepCount(c) ==
    /\ At(c, "sweep")
    /\ (img_i[c] - 1) \notin placed_indices[c]
    /\ figure_counter' = figure_counter + 1
    /\ pc' = [pc EXCEPT ![c] = "sweep_add"]
    /\ UNCHANGED <<generator, doc, args, figures_by_section, sec_i, fig_j, placed_indices,
                   img_i, output, sched, history, session>>

\* line 303: self._add_figure(img_data, f"Figure {self.figure_counter}")
SweepAddFigure(c) ==
    /\ At(c, "sweep_add")
    /\ LET r == _add_figure(doc, figure_counter, Images(c)[img_i[c]],
                            AutoCaption(figure_counter))
       IN  /\ doc' = r.doc
           /\ figure_counter' = r.figure_counter
    /\ GotoNextImage(c, img_i[c])
    /\ UNCHANGED <<generator, args, figures_by_section, sec_i, fig_j, placed_indices, output,
                   sched, history, session>>

AddReferences(c) ==
    /\ At(c, "references")
    /\ doc' = _add_references(doc, args[c].paper.references)
    /\ pc' = [pc EXCEPT ![c] = "save"]
    /\ UNCHANGED <<generator, figure_counter, args, figures_by_section, sec_i, fig_j,
                   placed_indices, img_i, output, sched, history, session>>

\* self.doc.save(output); return output.getvalue()
Save(c) ==
    /\ At(c, "save")
    /\ output' = [output EXCEPT ![c] = doc]
    /\ pc' = [pc EXCEPT ![c] = "done"]
    /\ UNCHANGED <<shared, args, figures_by_section, sec_i, fig_j, placed_indices, img_i, sched, history, session>>

\* the statements of generate() after its arguments are bound
GenerateStep(c) ==
    \/ SetupDocument(c)
    \/ AddTitle(c)
    \/ AddAuthors(c)
    \/ AddAbstract(c)
    \/ AddKeywords(c)
    \/ SetTwoColumn(c)
    \/ BuildFigureMap(c)
    \/ AddSectionHeading(c)
    \/ AddBodyText(c)
    \/ SectionFigureRender(c)
    \/ SectionFigureSkip(c)
    \/ SectionFigureRaise(c)
    \/ ComputePlaced(c)
    \/ SweepSkip(c)
    \/ SweepCount(c)
    \/ SweepAddFigure(c)
    \/ AddReferences(c)
    \/ Save(c)

\* one export request: export_docx has no await, so on the event loop a
\* generate() call runs from its first statement to its last alone
Next ==
    \/ BeginGenerate(1, Inputs)
    \/ GenerateStep(1)

Spec == Init /\ [][Next]_vars

(***************************************************************************)
(* Overlapping requests: generate() called on the singleton from two       *)
(* threads.  The interpreter may switch from one request to the other      *)
(* between any two statements.                                             *)
(***************************************************************************)
\* the arguments of the overlapping requests: a paper whose figures are
\* rendered, skipped and swept around, and one whose figure index raises
OverlapInputs ==
    { in \in FigureInputs :
        /\ in.paper.sections = SectionList(2, 0)
        /\ \/ /\ Len(in.images) = 2
              /\ in.images[1] = ImageBytes(1, TRUE)
              /\ [k \in 1..Len(in.paper.figures) |->
                     <<in.paper.figures[k].index, in.paper.figures[k].placement>>]
                  = << <<0, <<"A", "B">> >>, <<MaxImages, <<"A", "B">> >> >>
           \/ /\ in.images = <<>>
              /\ [k \in 1..Len(in.paper.figures) |->
                     <<in.paper.figures[k].index, in.paper.figures[k].placement>>]
                  = << <<-1, <<"c">> >> >> }

\* the interpreter hands control to the other request
Preempt ==
    /\ switches < MaxSwitches
    /\ running' = CHOOSE c \in Callers : c # running
    /\ switches' = switches + 1
    /\ UNCHANGED <<generator, doc, figure_counter, pc, args, figures_by_section, sec_i,
                   fig_j, placed_indices, img_i, output, history, session>>

\* export_docx of a paper with references
BeginGenerateOverlap(c) ==
    BeginGenerate(c, OverlapInputs \cup {in \in ImageInputs :
                                            /\ in.paper.figures = <<>>
                                            /\ in.paper.references # <<>>
                                            /\ in.images = <<>>})

NextOverlap ==
    \/ Preempt
    \/ \E c \in Callers : BeginGenerateOverlap(c) \/ GenerateStep(c)

SpecOverlap == Init /\ [][NextOverlap]_vars

(***************************************************************************)
(* Export after export: every request calls generate() on the instance     *)
(* that get_docx_generator() made for the first one.                       *)
(***************************************************************************)
\* the arguments of the repeated requests: papers with figures rendered,
\* skipped and raising, and papers whose images are all swept in
ReuseInputs == OverlapInputs \cup {in \in ImageInputs : in.paper.figures = <<>>}

\* a later export_docx: _generator is not None and is returned as it is; the
\* locals of the new generate() call are new
GenerateAgain(c, requests) ==
    /\ running = c
    /\ pc[c] \in {"done", "raised"}
    /\ generator = "IEEEDocxGenerator"
    /\ \E in \in requests : args' = [args EXCEPT ![c] = in]
    /\ earlier' = <<args[c]>>
    /\ pc' = [pc EXCEPT ![c] = "setup"]
    /\ figures_by_section' = [figures_by_section EXCEPT ![c] = <<>>]
    /\ sec_i' = [sec_i EXCEPT ![c] = 0]
    /\ fig_j' = [fig_j EXCEPT ![c] = 0]
    /\ placed_indices' = [placed_indices EXCEPT ![c] = {}]
    /\ img_i' = [img_i EXCEPT ![c] = 0]
    /\ output' = [output EXCEPT ![c] = <<>>]
    /\ UNCHANGED <<shared, sched, session>>

NextReuse ==
    \/ BeginGenerate(1, ReuseInputs)
    \/ GenerateAgain(1, ReuseInputs)
    \/ GenerateStep(1)

SpecReuse == Init /\ [][NextReuse]_vars

(***************************************************************************)
(* The routes of routes/paper.py.  The handlers are coroutines on one      *)
(* event loop: a handler runs alone from one await to the next, and other  *)
(* requests are served while it waits.  generate_paper waits at every      *)
(* img.read().  process_content() is awaited too, but it awaits nothing    *)
(* itself (ai_processor.py calls the model synchronously, lines 161-196),  *)
(* so the loop serves no other request before it returns or raises;        *)
(* export_docx and clear_session never wait.                               *)
(***************************************************************************)
\* an UploadFile of client c: the bytes read() returns, given by their
\* first characters (signature, client, position), and how many they are
Upload(c, k, size) ==
    [ data |-> <<"P", "N", "G", Digits[c + 1]>> \o Str(k - 1), size |-> size ]

\* a small file
FewBytes == 5

\* len(img_data) that line 61 accepts at most
MaxImageBytes == MAX_IMAGE_SIZE_MB * 1024 * 1024

\* the upload lists of client c: small files only; the last file too large;
\* one file of exactly the largest size; one file more than MAX_IMAGES
UploadLists(c) ==
    { [k \in 1..n |-> Upload(c, k, FewBytes)] : n \in (0..MaxUploads) \cup {MAX_IMAGES + 1} }
    \cup { [k \in 1..n |-> Upload(c, k, IF k = n THEN MaxImageBytes + 1 ELSE FewBytes)] :
           n \in 1..MaxUploads }
    \cup { <<Upload(c, 1, MaxImageBytes)>> }

\* the form of a request: raw_content stands for len(raw_content)
Requests(c) ==
    { [raw_content |-> MAX_CONTENT_LENGTH, images |-> u] : u \in UploadLists(c) }
    \cup { [raw_content |-> MAX_CONTENT_LENGTH + 1, images |-> <<Upload(c, 1, FewBytes)>>] }

\* the bytes of an upload list, in upload order
DataOf(images) == [k \in 1..Len(images) |-> images[k].data]

\* process_content: the paper built from the AI's answer keeps the figures
\* whose index is below image_count; here one figure per image
process_content(image_count) ==
    StructuredPaper(SectionList(1, 0),
                    [k \in 1..image_count |->
                        [index |-> k - 1, caption |-> CaptionOf(k), placement |-> <<"A", "b">>]],
                    <<>>)

\* the event loop is free to serve a request: it is neither inside the
\* generate() of an export nor inside a process_content() call
LoopFree ==
    /\ ~InGenerate(1)
    /\ \A c \in Clients : task[c].at # "process_content"

\* what the session holds
SessionState == [images |-> _session_images, paper |-> _session_paper]

\* the request of client c arrives with form req
Arrived(c, req) ==
    [NoTask EXCEPT !.raw_content = req.raw_content, !.images = req.images,
                   !.entry = <<SessionState>>]

\* lines 42-46: the content is too long, HTTP 400
GeneratePaperTooLong(c) ==
    /\ LoopFree
    /\ task[c].at = "idle"
    /\ \E req \in Requests(c) :
           /\ req.raw_content > MAX_CONTENT_LENGTH
           /\ task' = [task EXCEPT ![c] =
                          [Arrived(c, req) EXCEPT
                              !.at = "returned",
                              !.response = Response(400, FALSE, <<>>, "HTTPException")]]
    /\ UNCHANGED <<export, sched, history, _session_images, _session_paper>>

\* lines 49-53: too many images, HTTP 400
GeneratePaperTooMany(c) ==
    /\ LoopFree
    /\ task[c].at = "idle"
    /\ \E req \in Requests(c) :
           /\ req.raw_content <= MAX_CONTENT_LENGTH
           /\ Len(req.images) > MAX_IMAGES
           /\ task' = [task EXCEPT ![c] =
                          [Arrived(c, req) EXCEPT
                              !.at = "returned",
                              !.response = Response(400, FALSE, <<>>, "HTTPException")]]
    /\ UNCHANGED <<export, sched, history, _session_images, _session_paper>>

\* lines 55-59: _session_images = [], then the wait for the first read; with
\* no image, lines 69-70: the call of process_content(raw_content, 0)
GeneratePaperStart(c) ==
    /\ LoopFree
    /\ task[c].at = "idle"
    /\ \E req \in Requests(c) :
           /\ req.raw_content <= MAX_CONTENT_LENGTH
           /\ Len(req.images) <= MAX_IMAGES
           /\ task' = [task EXCEPT ![c] =
                          [Arrived(c, req) EXCEPT
                              !.at = IF req.images = <<>> THEN "process_content"
                                     ELSE "read"]]
    /\ _session_images' = <<>>
    /\ UNCHANGED <<export, sched, history, _session_paper>>

\* lines 59-65, 81-82: the read returns more bytes than allowed; the
\* HTTPException is raised inside the try and caught by `except Exception`
ImageTooLarge(c) ==
    /\ LoopFree
    /\ task[c].at = "read"
    /\ task[c].images[task[c].read + 1].size > MaxImageBytes
    /\ task' = [task EXCEPT ![c].at = "returned",
                            ![c].response = Response(200, FALSE, <<>>, "Unexpected error")]
    /\ UNCHANGED <<export, sched, history, _session_images, _session_paper>>

\* lines 59-66: the read returns, the bytes are appended to the list that
\* _session_images names now; then the wait for the next read, or after the
\* last one lines 69-70: the call of
\* process_content(raw_content, len(_session_images))
ImageStored(c) ==
    /\ LoopFree
    /\ task[c].at = "read"
    /\ LET img == task[c].images[task[c].read + 1]
           last == task[c].read + 1 = Len(task[c].images)
       IN  /\ img.size <= MaxImageBytes
           /\ _session_images' = Append(_session_images, img.data)
           /\ task' = [task EXCEPT ![c].read = @ + 1,
                                   ![c].at = IF last THEN "process_content" ELSE "read",
                                   ![c].image_count = IF last THEN Len(_session_images') ELSE @]
    /\ UNCHANGED <<export, sched, history, _session_paper>>

\* lines 70-75: the paper arrives, is stored, and the response says success
ProcessContentReturns(c) ==
    /\ task[c].at = "process_content"
    /\ LET paper == process_content(task[c].image_count)
       IN  /\ _session_paper' = <<paper>>
           /\ task' = [task EXCEPT ![c].at = "returned",
                                   ![c].response = Response(200, TRUE, <<paper>>, "None")]
    /\ UNCHANGED <<export, sched, history, _session_images>>

\* lines 77-80: get_ai_processor() or process_content raises ValueError or
\* RuntimeError
ProcessContentRaises(c) ==
    /\ task[c].at = "process_content"
    /\ \E e \in {"ValueError", "RuntimeError"} :
           task' = [task EXCEPT ![c].at = "returned",
                                ![c].response = Response(200, FALSE, <<>>, e)]
    /\ UNCHANGED <<export, sched, history, _session_images, _session_paper>>

\* clear_session
ClearSession ==
    /\ LoopFree
    /\ _session_images' = <<>>
    /\ _session_paper' = <<>>
    /\ UNCHANGED <<export, sched, history, task>>

\* the paper an export request posts: a figure on the first image, a figure
\* with index -1, and a reference
ExportPaper ==
    StructuredPaper(SectionList(1, 0),
                    << [index |-> 0, caption |-> CaptionOf(1), placement |-> <<"A", "B">>],
                       [index |-> -1, caption |-> CaptionOf(2), placement |-> <<"a", "b">>] >>,
                    <<<<"[", "r", "e", "f", "]">>>>)

\* export_docx: generate(paper, _session_images) on the singleton, made on
\* first use; generate() then runs to its end before any other request
ExportDocx ==
    /\ running = 1
    /\ LoopFree
    /\ generator' = "IEEEDocxGenerator"
    /\ args' = [args EXCEPT ![1] = [paper |-> ExportPaper, images |-> _session_images]]
    /\ pc' = [pc EXCEPT ![1] = "setup"]
    /\ figures_by_section' = [figures_by_section EXCEPT ![1] = <<>>]
    /\ sec_i' = [sec_i EXCEPT ![1] = 0]
    /\ fig_j' = [fig_j EXCEPT ![1] = 0]
    /\ placed_indices' = [placed_indices EXCEPT ![1] = {}]
    /\ img_i' = [img_i EXCEPT ![1] = 0]
    /\ output' = [output EXCEPT ![1] = <<>>]
    /\ UNCHANGED <<doc, figure_counter, sched, history, session>>

GeneratePaperStep(c) ==
    \/ GeneratePaperTooLong(c)
    \/ GeneratePaperTooMany(c)
    \/ GeneratePaperStart(c)
    \/ ImageTooLarge(c)
    \/ ImageStored(c)
    \/ ProcessContentReturns(c)
    \/ ProcessContentRaises(c)

NextSession ==
    \/ \E c \in Clients : GeneratePaperStep(c)
    \/ ClearSession
    \/ ExportDocx
    \/ GenerateStep(1)

SpecSession == Init /\ [][NextSession]_vars

(***************************************************************************)
(* Reading a document back.                                                *)
(***************************************************************************)
IsCaption(b) == b.kind = "paragraph" /\ b.style = "IEEE Caption"

IsHeading(b) == b.kind = "paragraph" /\ b.style = "IEEE Heading"

IsBody(b) == b.kind = "paragraph" /\ b.style = "IEEE Body"

IsPlaceholder(b) == b.kind = "paragraph" /\ b.style = "Normal" /\ b.align = "center"

\* what stands for the image of a figure: the picture or the placeholder
IsFigureImage(b) == b.kind = "picture" \/ IsPlaceholder(b)

\* the elements of a sequence
Range(seq) == {seq[k] : k \in 1..Len(seq)}

\* str.startswith
StartsWith(s, prefix) == Len(s) >= Len(prefix) /\ SubSeq(s, 1, Len(prefix)) = prefix

\* the caption paragraphs of d, in document order
Captions(d) == SelectSeq(d, IsCaption)

\* the 0-based indices of the images no figure names, ascending
RECURSIVE UnplacedFrom(_, _, _)
UnplacedFrom(k, n, placed) ==
    IF k >= n THEN <<>>
    ELSE (IF k \in placed THEN <<>> ELSE <<k>>) \o UnplacedFrom(k + 1, n, placed)

Unplaced(in) ==
    UnplacedFrom(0, Len(in.images),
                 {in.paper.figures[k].index : k \in 1..Len(in.paper.figures)})

\* the number of blocks of the references block of a paper
RefBlockLen(in) ==
    IF in.paper.references = <<>> THEN 0 ELSE Len(in.paper.references) + 1

(***************************************************************************)
(* C1.  The numbers of the "Fig. n." labels of a document, in document     *)
(* order over every rendered figure (placed in a section or swept in),     *)
(* are 1, 2, 3, ...: the k-th caption carries the label "Fig. k.".         *)
(***************************************************************************)
C1_LabelsCountFromOne ==
    \A k \in 1..Len(Captions(doc)) : Captions(doc)[k].runs[1] = FigLabel(k)

(***************************************************************************)
(* C2.  When generate() has returned, the blocks between the section       *)
(* content and the references block are the images that no figure names,   *)
(* once each, in ascending index order, each followed by a caption whose   *)
(* label is "Fig. N." and whose text is "Figure N" for the same N, N       *)
(* continuing the count of the figures rendered in the sections; no such   *)
(* caption stands anywhere before them.                                    *)
(***************************************************************************)
C2_SweepAfterSections ==
    pc[1] = "done" =>
        LET d == output[1]
            in == args[1]
            un == Unplaced(in)
            last == Len(d) - RefBlockLen(in)
            first == last - 2 * Len(un) + 1
            m == Len(Captions(d)) - Len(un)
        IN  /\ first >= 1
            /\ m >= 0
            /\ \A r \in 1..Len(un) :
                   /\ d[first + 2 * (r - 1)] = FigureImageBlock(in.images[un[r] + 1])
                   /\ d[first + 2 * r - 1] =
                          Paragraph("IEEE Caption", <<FigLabel(m + r), AutoCaption(m + r)>>)
            /\ \A k \in 1..(first - 1) :
                   IsCaption(d[k]) =>
                       ~StartsWith(d[k].runs[2], <<"F", "i", "g", "u", "r", "e", " ">>)
            /\ \A k \in first..Len(d) : ~IsHeading(d[k]) \/ k = last + 1

(***************************************************************************)
(* C3 and C10 are about the figures that no image stands behind.           *)
(***************************************************************************)
\* the figure records of a request whose index is in the set beyond
FiguresWhere(in, beyond) ==
    {k \in 1..Len(in.paper.figures) : in.paper.figures[k].index \in beyond}

\* no caption of the document d carries the text of figure record k
NoCaptionOf(d, k) ==
    \A b \in 1..Len(d) : IsCaption(d[b]) => d[b].runs[2] # CaptionOf(k)

\* in every state: the document holds no caption of such a figure, as many
\* image blocks as captions, and a request all of whose figures are such has
\* not raised
DroppedEverywhere(beyond) ==
    /\ \A k \in FiguresWhere(args[1], beyond) : NoCaptionOf(doc, k)
    /\ Len(SelectSeq(doc, IsFigureImage)) = Len(Captions(doc))
    /\ FiguresWhere(args[1], beyond) = 1..Len(args[1].paper.figures) => pc[1] # "raised"

\* in every step: when the section loop is at such a figure, the step leaves
\* the document and the figure counter as they are and does not raise
DroppedInStep(beyond) ==
    (/\ pc[1] = "figures"
     /\ Bucket(1)[fig_j[1]].index \in beyond)
    => /\ doc' = doc
       /\ figure_counter' = figure_counter
       /\ pc'[1] \notin {"figures", "raised"} \/ fig_j'[1] = fig_j[1] + 1

\* the figure indices of the model at or beyond the length of the image list
AtOrBeyondLen(images) == {x \in Indices : x >= Len(images)}

\* the figure indices of the model that are no position of the image list
OutsideList(images) == {x \in Indices : x < 0 \/ x >= Len(images)}

(***************************************************************************)
(* C3.  A figure whose index is greater than or equal to the number of     *)
(* images leaves nothing in the document: no image, no placeholder, no     *)
(* caption; the step that meets it changes neither the document nor the    *)
(* figure counter and raises nothing, and generation goes on to its end.   *)
(***************************************************************************)
C3_BeyondLenDropped ==
    /\ []DroppedEverywhere(AtOrBeyondLen(Images(1)))
    /\ [][DroppedInStep(AtOrBeyondLen(Images(1)))]_vars

\* a request has returned whose paper has a figure with index >= len(images)
\* placed in one of its sections
C3_Witness ==
    /\ pc[1] = "done"
    /\ \E k \in FiguresWhere(args[1], AtOrBeyondLen(Images(1))) :
           \E i \in 1..Len(Sections(1)) :
               Lower(Sections(1)[i].heading) = Lower(args[1].paper.figures[k].placement)

(***************************************************************************)
(* C10.  A figure whose index is no position of the image list (negative,  *)
(* or at or beyond its length) leaves nothing in the document and does     *)
(* not make generate() raise.                                              *)
(***************************************************************************)
C10_OutsideListDropped ==
    /\ []DroppedEverywhere(OutsideList(Images(1)))
    /\ [][DroppedInStep(OutsideList(Images(1)))]_vars

(***************************************************************************)
(* C4.  The two-column section break stands in the document at most once,  *)
(* directly after the title, authors, abstract and keywords paragraphs;    *)
(* no heading stands before it; and a returned document holds it exactly   *)
(* once, with nothing but section, figure and reference content after it,  *)
(* whether or not the paper has sections.                                  *)
(***************************************************************************)
ColumnBreaks(d) == {k \in 1..Len(d) : d[k].kind = "section_break"}

C4_TwoColumnOnceAfterKeywords ==
    /\ Cardinality(ColumnBreaks(doc)) <= 1
    /\ \A k \in ColumnBreaks(doc) :
           /\ doc[k] = TwoColumnBreak
           /\ k = 5
           /\ [j \in 1..4 |-> doc[j].style] =
                  <<"IEEE Title", "IEEE Author", "IEEE Abstract", "IEEE Keywords">>
           /\ \A j \in 1..4 : doc[j].kind = "paragraph"
           /\ \A j \in (k + 1)..Len(doc) :
                  IsHeading(doc[j]) \/ IsBody(doc[j]) \/ IsCaption(doc[j])
                  \/ IsFigureImage(doc[j])
    /\ \A j \in 1..Len(doc) :
           IsHeading(doc[j]) => \E k \in ColumnBreaks(doc) : k < j
    /\ pc[1] = "done" => /\ Cardinality(ColumnBreaks(output[1])) = 1
                         /\ output[1] = doc

\* a request with no section, and one with sections, has returned with the
\* break in its document
C4_Witness ==
    /\ pc[1] = "done"
    /\ Sections(1) = <<>>
    /\ ColumnBreaks(output[1]) = {5}
    /\ Len(output[1]) > 5

(***************************************************************************)
(* C5.  In a returned document the i-th heading is the heading of the i-th *)
(* section of the paper: its Roman numeral (i <= 10) or its decimal number *)
(* (i > 10), then ". ", then the heading in upper case -- whatever figures *)
(* were rendered or skipped in between.                                    *)
(***************************************************************************)
\* the Roman numeral of n, by the subtractive rule
RECURSIVE Roman(_)
Roman(n) ==
    IF n >= 10 THEN <<"X">> \o Roman(n - 10)
    ELSE IF n = 9 THEN <<"I", "X">>
    ELSE IF n >= 5 THEN <<"V">> \o Roman(n - 5)
    ELSE IF n = 4 THEN <<"I", "V">>
    ELSE IF n >= 1 THEN <<"I">> \o Roman(n - 1)
    ELSE <<>>

\* the decimal representation of a number below 100
Decimal(n) ==
    IF n < 10 THEN <<Digits[n + 1]>> ELSE <<Digits[(n \div 10) + 1], Digits[(n % 10) + 1]>>

\* t is s with every lower-case letter replaced by its capital
IsUpperOf(t, s) ==
    /\ Len(t) = Len(s)
    /\ \A k \in 1..Len(s) :
           /\ PosIn(t[k], LowerCase) = 0
           /\ t[k] = s[k] \/ (PosIn(s[k], LowerCase) > 0
                              /\ PosIn(t[k], UpperCase) = PosIn(s[k], LowerCase))

C5_HeadingNumbering ==
    pc[1] = "done" =>
        LET heads == SelectSeq(output[1], IsHeading)
            secs == Sections(1)
        IN  /\ Len(heads) = Len(secs) + (IF RefBlockLen(args[1]) > 0 THEN 1 ELSE 0)
            /\ \A i \in 1..Len(secs) :
                   LET text == heads[i].runs[1]
                       numeral == IF i <= 10 THEN Roman(i) ELSE Decimal(i)
                       n == Len(numeral)
                   IN  /\ Len(heads[i].runs) = 1
                       /\ StartsWith(text, numeral \o <<".", " ">>)
                       /\ IsUpperOf(SubSeq(text, n + 3, Len(text)), secs[i].heading)

\* a returned document with more than ten sections, figures among them
C5_Witness ==
    /\ pc[1] = "done"
    /\ Len(Sections(1)) > 10
    /\ Len(Captions(output[1])) > 0

(***************************************************************************)
(* C6.  A returned document of a paper with references ends with the       *)
(* references block: a heading that reads REFERENCES and nothing else,     *)
(* then one paragraph "[i] <text>" per reference, i = 1..n in input order; *)
(* nothing follows it and no other heading reads REFERENCES.  A returned   *)
(* document of a paper without references holds no such heading.           *)
(***************************************************************************)
ReferencesText == <<"R", "E", "F", "E", "R", "E", "N", "C", "E", "S">>

ReadsReferences(b) == IsHeading(b) /\ b.runs = <<ReferencesText>>

C6_ReferencesLast ==
    pc[1] = "done" =>
        LET d == output[1]
            refs == args[1].paper.references
            n == Len(refs)
        IN  IF n > 0
            THEN /\ Len(d) > n
                 /\ ReadsReferences(d[Len(d) - n])
                 /\ \A k \in 1..(Len(d) - n - 1) : ~ReadsReferences(d[k])
                 /\ \A i \in 1..n :
                        /\ IsBody(d[Len(d) - n + i])
                        /\ d[Len(d) - n + i].runs =
                               << <<"[">> \o Decimal(i) \o <<"]", " ">> \o refs[i] >>
            ELSE \A k \in 1..Len(d) : ~ReadsReferences(d[k])

\* a returned document with references after sections and swept-in images
C6_Witness ==
    /\ pc[1] = "done"
    /\ Len(args[1].paper.references) = MaxRefs
    /\ Len(Sections(1)) > 0
    /\ Unplaced(args[1]) # <<>>

(***************************************************************************)
(* C7.  A step that renders an image python-docx cannot decode -- for a    *)
(* figure of a section whose index is a position of the image list, or     *)
(* for a swept-in image -- appends a centered placeholder paragraph and    *)
(* then the caption labelled with the next figure number, advances the     *)
(* figure counter by exactly one, and leaves generate() running.           *)
(***************************************************************************)
\* the image the next step of the request renders, <<>> when it renders none
ImageToRender(c) ==
    IF pc[c] = "sweep_add" THEN Images(c)[img_i[c]]
    ELSE IF pc[c] = "figures"
            /\ Bucket(c)[fig_j[c]].index >= 0
            /\ Bucket(c)[fig_j[c]].index < Len(Images(c))
         THEN Images(c)[Bucket(c)[fig_j[c]].index + 1]
         ELSE <<>>

Ascending(S) ==
    [r \in 1..Cardinality(S) |-> CHOOSE k \in S : Cardinality({j \in S : j < k}) = r - 1]

\* the blocks of d after its i-th heading and before the next one
SectionPart(d, i) ==
    LET heads == Ascending({k \in 1..Len(d) : IsHeading(d[k])})
    IN  SubSeq(d, heads[i] + 1, IF i < Len(heads) THEN heads[i + 1] - 1 ELSE Len(d))

\* the figures section i of the request must show, in figure-list order
FiguresDue(in, i) ==
    SelectSeq(in.paper.figures,
              LAMBDA fig : /\ Lower(fig.placement) = Lower(in.paper.sections[i].heading)
                           /\ fig.index >= 0
                           /\ fig.index < Len(in.images))

C9_FiguresAfterBody ==
    pc[1] = "done" =>
        \A i \in 1..Len(Sections(1)) :
            LET part == SectionPart(output[1], i)
                due == FiguresDue(args[1], i)
                nbody == Len(SelectSeq(part, IsBody))
                IsDue(b) == IsCaption(b) /\ \E r \in 1..Len(due) : b.runs[2] = due[r].caption
                at == Ascending({k \in 1..Len(part) : IsDue(part[k])})
            IN  /\ \A k \in 1..nbody : IsBody(part[k])
                /\ \A k \in (nbody + 1)..Len(part) : IsFigureImage(part[k]) \/ IsCaption(part[k])
                /\ Len(at) = Len(due)
                /\ \A r \in 1..Len(due) :
                       LET image_data == args[1].images[due[r].index + 1]
                       IN  /\ part[at[r]].runs[2] = due[r].caption
                           /\ at[r] > nbody + 1
                           /\ IF Decodable(image_data)
                              THEN /\ part[at[r] - 1].kind = "picture"
                                   /\ part[at[r] - 1].runs = <<image_data>>
                              ELSE IsPlaceholder(part[at[r] - 1])

\* a returned document whose first section shows two figures, in a paper
\* with a second section
C9_Witness ==
    /\ pc[1] = "done"
    /\ Len(Sections(1)) = 2
    /\ Len(FiguresDue(args[1], 1)) = 2
    /\ FiguresDue(args[1], 1)[1].index > FiguresDue(args[1], 1)[2].index

(***************************************************************************)
(* C8.  While a generate() call is building its document, no step of       *)
(* another call changes the document or the figure counter it builds       *)
(* with: each call owns its document and its counter.                      *)
(***************************************************************************)
\* request d has set up its document and not yet returned it
Building(d) == pc[d] \notin {"idle", "setup", "done", "raised"}

C8_CallsDoNotInterfere ==
    [][ \A d \in Callers :
            (Building(d) /\ running # d) =>
                (doc' = doc /\ figure_counter' = figure_counter) ]_vars

Unmatched(in) ==
    {k \in 1..Len(in.paper.figures) :
        \A i \in 1..Len(in.paper.sections) :
            Lower(in.paper.sections[i].heading) # Lower(in.paper.figures[k].placement)}

\* the captions of d that the sweep wrote
SweptCaptions(d) ==
    SelectSeq(d, LAMBDA b : IsCaption(b)
                            /\ StartsWith(b.runs[2], <<"F", "i", "g", "u", "r", "e", " ">>))

\* the positions of d that show the picture of image_data
PicturesOf(d, image_data) ==
    {b \in 1..Len(d) : d[b].kind = "picture" /\ d[b].runs = <<image_data>>}

ReadersOf(in, i) ==
    {k \in 1..Len(in.paper.figures) :
        /\ PyInRange(in.images, in.paper.figures[k].index)
        /\ PyIndex(in.images, in.paper.figures[k].index) = in.images[i]}

C13_FigureRenderedAtMostOnce ==
    pc[1] = "done" =>
        LET d == output[1]
            in == args[1]
        IN  /\ \A k \in 1..Len(in.paper.figures) :
                   Cardinality({b \in 1..Len(d) :
                                   IsCaption(d[b]) /\ d[b].runs[2] = CaptionOf(k)}) <= 1
            /\ \A i \in 1..Len(in.images) :
                   Cardinality(PicturesOf(d, in.images[i]))
                       <= (IF ReadersOf(in, i) = {} THEN 1
                           ELSE Cardinality(ReadersOf(in, i)))

(***************************************************************************)
(* C14.  In the step in which a generate_paper request returns success,    *)
(* the session image list is exactly the bytes uploaded in that request,   *)
(* in upload order; and the image list an export_docx request hands to     *)
(* generate() is empty or the whole upload list of one request, never a    *)
(* part of one or a mix of two -- whatever other requests are served       *)
(* while generate_paper waits.                                             *)
(***************************************************************************)
\* the step is the one in which the request of client c returns success
ReturnsSuccess(c) == ~task[c].response.success /\ task'[c].response.success

\* the step is the start of an export request
ExportStarts == pc[1] # "setup" /\ pc'[1] = "setup"

C14_SessionImagesWhole ==
    [][ /\ \A c \in Clients :
               ReturnsSuccess(c) => _session_images' = DataOf(task[c].images)
        /\ ExportStarts =>
               \/ args'[1].images = <<>>
               \/ \E c \in Clients : /\ task[c].at # "idle"
                                     /\ args'[1].images = DataOf(task[c].images) ]_vars

(***************************************************************************)
(* C15.  A generate_paper request that meets a limit violation -- content  *)
(* longer than MAX_CONTENT_LENGTH, more than MAX_IMAGES images, or an      *)
(* image of more than MAX_IMAGE_SIZE_MB megabytes -- ends with HTTP 400    *)
(* and no response body of its own, and at its end _session_images and     *)
(* _session_paper are what they were when the request arrived.             *)
(***************************************************************************)
\* the request t has met one of the three limits
LimitViolated(t) ==
    \/ t.raw_content > MAX_CONTENT_LENGTH
    \/ Len(t.images) > MAX_IMAGES
    \/ /\ t.at = "returned"
       /\ t.read < Len(t.images)
       /\ t.images[t.read + 1].size > MaxImageBytes

\* the step is the one in which the request of client c ends
Returns(c) == task[c].at # "returned" /\ task'[c].at = "returned"

C15_LimitViolationRejected ==
    [][ \A c \in Clients :
            (Returns(c) /\ LimitViolated(task'[c])) =>
                /\ task'[c].response.status = 400
                /\ _session_images' = task'[c].entry[1].images
                /\ _session_paper' = task'[c].entry[1].paper ]_vars

====
